---- MODULE Spec2Model ----
(***************************************************************************)
(* Model of scripts/css-specificity-checker.py: the CSS specificity         *)
(* calculator (CSSSpecificityCalculator), the stylesheet selector extractor *)
(* and report builder (CSSFileAnalyzer).                                    *)
(*                                                                          *)
(* A Python str is modelled as a sequence of one-character strings.  Every  *)
(* regular expression of the source is modelled by an operator that gives,  *)
(* for a start position, the end of the match the backtracking engine finds *)
(* there (0 when there is none); findall / sub / split are then the usual   *)
(* leftmost, non-overlapping scan over those matches.                       *)
(***************************************************************************)
EXTENDS Integers, Sequences, FiniteSets, TLC

(***************************************************************************)
(* Characters and strings                                                   *)
(***************************************************************************)

\* A string literal as a sequence of one-character strings.
Chars(str) ==
    [i \in 1..Len(str) |-> SubSeq(str, i, i)]

Range(f) ==
    {f[i] : i \in DOMAIN f}

LowerSeq ==
    Chars("abcdefghijklmnopqrstuvwxyz")

UpperSeq ==
    Chars("ABCDEFGHIJKLMNOPQRSTUVWXYZ")

Letters ==
    Range(LowerSeq) \cup Range(UpperSeq)

\* The decimal digits, in order.
DigitSeq ==
    Chars("0123456789")

Digits ==
    Range(DigitSeq)

\* The class [\w-] of the source's regular expressions.
IdentChars ==
    Letters \cup Digits \cup {"_", "-"}

\* \s, and the characters str.strip() removes.
Whitespace ==
    {" ", "\t", "\n", "\r", "\f"}

\* The class [\w\-=~|^$*"':\s] of the attribute-selector expression.
AttrChars ==
    IdentChars \cup Whitespace \cup {"=", "~", "|", "^", "$", "*", "\"", "'", ":"}

\* The class [\s>+~] of the combinator split.
CombinatorChars ==
    Whitespace \cup {">", "+", "~"}

\* The characters str.lower() changes.
UpperLetters ==
    Range(UpperSeq)

\* str.lower() on one character.
LowerChar(c) ==
    IF c \in UpperLetters
    THEN LowerSeq[CHOOSE i \in 1..Len(UpperSeq) : UpperSeq[i] = c]
    ELSE c

\* The selector used as it is written, its letter case kept.
lower_as_written(s) ==
    s

\* str.lower()
lower(s) ==
    [i \in 1..Len(s) |-> LowerChar(s[i])]

\* Whether the literal pat occurs in s at position i.
MatchAt(s, i, pat) ==
    /\ i >= 1
    /\ i + Len(pat) - 1 <= Len(s)
    /\ \A k \in 1..Len(pat) : s[i + k - 1] = pat[k]

\* The Python expression `pat in s`.
Contains(s, pat) ==
    \E i \in 1..(Len(s) + 1) : MatchAt(s, i, pat)

\* str.startswith
startswith(s, pat) ==
    MatchAt(s, 1, pat)

\* str.strip()
strip(s) ==
    LET keep == {i \in 1..Len(s) : s[i] \notin Whitespace}
    IN  IF keep = {} THEN <<>>
        ELSE LET a == CHOOSE i \in keep : \A j \in keep : i <= j
                 b == CHOOSE i \in keep : \A j \in keep : i >= j
             IN  SubSeq(s, a, b)

\* The position after the longest run of characters of cls that starts at i.
RECURSIVE RunEnd(_, _, _)
RunEnd(s, i, cls) ==
    IF i <= Len(s) /\ s[i] \in cls THEN RunEnd(s, i + 1, cls) ELSE i

\* The first position >= i that holds character c, or 0.
RECURSIVE IndexOf(_, _, _)
IndexOf(s, i, c) ==
    IF i > Len(s) THEN 0
    ELSE IF s[i] = c THEN i
    ELSE IndexOf(s, i + 1, c)

(***************************************************************************)
(* The regular-expression engine's scan.  m[i] is the position after the    *)
(* match that starts at i, or 0; every expression of the source needs at    *)
(* least one character, so a match always advances.                         *)
(***************************************************************************)

\* The matches of re.findall / re.sub / re.split, as <<start, end>> pairs
\* (end exclusive), leftmost first and not overlapping.
RECURSIVE Scan(_, _, _)
Scan(m, i, n) ==
    IF i > n THEN <<>>
    ELSE LET e == m[i]
         IN  IF e = 0 THEN Scan(m, i + 1, n)
             ELSE <<<<i, e>>>> \o Scan(m, e, n)

\* re.sub: s with every match replaced by repl.
RECURSIVE Replace(_, _, _, _, _)
Replace(s, ms, k, from, repl) ==
    IF k > Len(ms) THEN SubSeq(s, from, Len(s))
    ELSE SubSeq(s, from, ms[k][1] - 1) \o repl
             \o Replace(s, ms, k + 1, ms[k][2], repl)

\* re.split: the pieces of s between the matches.
RECURSIVE Pieces(_, _, _, _)
Pieces(s, ms, k, from) ==
    IF k > Len(ms) THEN <<SubSeq(s, from, Len(s))>>
    ELSE <<SubSeq(s, from, ms[k][1] - 1)>> \o Pieces(s, ms, k + 1, ms[k][2])

\* str.split(sep) for a one-character separator.
RECURSIVE split(_, _)
split(s, sep) ==
    LET j == IndexOf(s, 1, sep)
    IN  IF j = 0 THEN <<s>>
        ELSE <<SubSeq(s, 1, j - 1)>> \o split(SubSeq(s, j + 1, Len(s)), sep)

(***************************************************************************)
(* The regular expressions of CSSSpecificityCalculator                      *)
(***************************************************************************)

\* The literals the expressions of the calculator open with, and the marker
\* of an inline style.
NotPrefix ==
    Chars(":not(")

IsPrefix ==
    Chars(":is(")

HasPrefix ==
    Chars(":has(")

StyleMarker ==
    Chars("style=")

\* c[\w-]+ at i, for the marker character c ("#" or ".").
MarkedIdentEnd(s, i, c) ==
    IF s[i] = c /\ RunEnd(s, i + 1, IdentChars) > i + 1
    THEN RunEnd(s, i + 1, IdentChars)
    ELSE 0

\* r'#[\w-]+'
IdMatches(s) ==
    Scan([i \in 1..Len(s) |-> MarkedIdentEnd(s, i, "#")], 1, Len(s))

\* r'\.[\w-]+'
ClassMatches(s) ==
    Scan([i \in 1..Len(s) |-> MarkedIdentEnd(s, i, ".")], 1, Len(s))

\* r'\[[\w\-=~|^$*"\':\s]+\]' at i: a bracket, one or more characters of the
\* class, a closing bracket.
AttrEnd(s, i) ==
    LET e == RunEnd(s, i + 1, AttrChars)
    IN  IF s[i] = "[" /\ e > i + 1 /\ e <= Len(s) /\ s[e] = "]"
        THEN e + 1
        ELSE 0

AttrMatches(s) ==
    Scan([i \in 1..Len(s) |-> AttrEnd(s, i)], 1, Len(s))

\* The names the two negative lookaheads of the pseudo-class expression
\* exclude: (?!not|is|where|has)(?!before|after|first-line|first-letter).
ExcludedPseudoNames ==
    {Chars("not"), Chars("is"), Chars("where"), Chars("has"),
     Chars("before"), Chars("after"), Chars("first-line"),
     Chars("first-letter")}

\* r':(?!not|is|where|has)(?!before|after|first-line|first-letter)[\w-]+'
PseudoClassEnd(s, i) ==
    LET e == RunEnd(s, i + 1, IdentChars)
    IN  IF /\ s[i] = ":"
           /\ \A nm \in ExcludedPseudoNames : ~MatchAt(s, i + 1, nm)
           /\ e > i + 1
        THEN e
        ELSE 0

PseudoClassMatches(s) ==
    Scan([i \in 1..Len(s) |-> PseudoClassEnd(s, i)], 1, Len(s))

\* prefix followed by (.+)\) at i: the argument runs to the last ")" and may
\* hold others.
FunctionalEnd_greedy(s, i, prefix) ==
    LET a == i + Len(prefix)
        closes == {j \in (a + 1)..Len(s) : s[j] = ")"}
    IN  IF MatchAt(s, i, prefix) /\ closes # {}
        THEN (CHOOSE j \in closes : \A h \in closes : h <= j) + 1
        ELSE 0

\* prefix followed by ([^)]+)\) at i: the argument runs to the next ")" and
\* holds at least one character.
FunctionalEnd(s, i, prefix) ==
    LET a == i + Len(prefix)
        j == IndexOf(s, a, ")")
    IN  IF MatchAt(s, i, prefix) /\ j > a THEN j + 1 ELSE 0

\* The captured group of a functional match <<start, end>>.
FunctionalArg(s, m, prefix) ==
    SubSeq(s, m[1] + Len(prefix), m[2] - 2)

\* r':not\(([^)]+)\)': the captured arguments, in order.
NotMatches(s) ==
    LET ms == Scan([i \in 1..Len(s) |-> FunctionalEnd(s, i, NotPrefix)],
                   1, Len(s))
    IN  [k \in 1..Len(ms) |-> FunctionalArg(s, ms[k], NotPrefix)]

\* r':(?:is|has)\(([^)]+)\)' at i.
IsHasEnd(s, i) ==
    IF FunctionalEnd(s, i, IsPrefix) # 0
    THEN FunctionalEnd(s, i, IsPrefix)
    ELSE FunctionalEnd(s, i, HasPrefix)

IsHasMatches(s) ==
    LET ms == Scan([i \in 1..Len(s) |-> IsHasEnd(s, i)], 1, Len(s))
    IN  [k \in 1..Len(ms) |->
            IF MatchAt(s, ms[k][1], IsPrefix)
            THEN FunctionalArg(s, ms[k], IsPrefix)
            ELSE FunctionalArg(s, ms[k], HasPrefix)]

\* The alternatives of the pseudo-element expression, in the source's order.
PseudoElementNames ==
    <<Chars("before"), Chars("after"), Chars("first-line"),
      Chars("first-letter"), Chars("backdrop"), Chars("placeholder"),
      Chars("marker"), Chars("selection")>>

\* The position after the first alternative that matches at i, or 0.
PseudoElementNameEnd(s, i) ==
    LET hits == {k \in 1..Len(PseudoElementNames) :
                    MatchAt(s, i, PseudoElementNames[k])}
    IN  IF hits = {} THEN 0
        ELSE LET k == CHOOSE h \in hits : \A g \in hits : h <= g
             IN  i + Len(PseudoElementNames[k])

\* r'::?(?:before|after|first-line|first-letter|backdrop|placeholder|marker|selection)'
\* at i: the optional second colon is tried first, then given up.
PseudoElementEnd(s, i) ==
    IF s[i] # ":" THEN 0
    ELSE IF MatchAt(s, i + 1, <<":">>) /\ PseudoElementNameEnd(s, i + 2) # 0
    THEN PseudoElementNameEnd(s, i + 2)
    ELSE PseudoElementNameEnd(s, i + 1)

PseudoElementMatches(s) ==
    Scan([i \in 1..Len(s) |-> PseudoElementEnd(s, i)], 1, Len(s))

\* r':[\w-]+(?:\([^)]*\))?' at i: a pseudo-class name and, when one follows
\* and is closed, its parenthesised argument.
PseudoStripEnd(s, i) ==
    LET e == RunEnd(s, i + 1, IdentChars)
        j == IndexOf(s, e + 1, ")")
    IN  IF s[i] # ":" \/ e = i + 1 THEN 0
        ELSE IF MatchAt(s, e, <<"(">>) /\ j # 0 THEN j + 1
        ELSE e

PseudoStripMatches(s) ==
    Scan([i \in 1..Len(s) |-> PseudoStripEnd(s, i)], 1, Len(s))

\* q[^q]*q at i, for the quote character q.
QuotedEnd(s, i, q) ==
    IF s[i] = q /\ IndexOf(s, i + 1, q) # 0
    THEN IndexOf(s, i + 1, q) + 1
    ELSE 0

QuotedMatches(s, q) ==
    Scan([i \in 1..Len(s) |-> QuotedEnd(s, i, q)], 1, Len(s))

\* r'[\s>+~]+'
CombinatorMatches(s) ==
    Scan([i \in 1..Len(s) |->
             IF s[i] \in CombinatorChars THEN RunEnd(s, i, CombinatorChars)
             ELSE 0],
         1, Len(s))

(***************************************************************************)
(* CSSSpecificityCalculator                                                 *)
(***************************************************************************)

\* CSSSpecificityCalculator.DEFAULT_THRESHOLD
DEFAULT_THRESHOLD ==
    <<0, 1, 3, 3>>

\* __init__: `threshold or self.DEFAULT_THRESHOLD`.  <<>> stands for the two
\* falsy arguments, None and the empty tuple.
__init__(threshold_arg) ==
    IF threshold_arg = <<>> THEN DEFAULT_THRESHOLD ELSE threshold_arg

\* _clean_selector: the body of every double-quoted, then of every
\* single-quoted, string is emptied; then the result is stripped.
_clean_selector(selector) ==
    LET c1 == Replace(selector, QuotedMatches(selector, "\""), 1, 1,
                      <<"\"", "\"">>)
        c2 == Replace(c1, QuotedMatches(c1, "'"), 1, 1, <<"'", "'">>)
    IN  strip(c2)

\* re.sub(pattern, '', s) for the matches ms of the pattern in s.
Remove(s, ms) ==
    Replace(s, ms, 1, 1, <<>>)

\* The body of the loop of _count_elements: 1 when the part leaves an
\* element name once its IDs, classes, attributes and pseudo-classes are
\* removed, else 0.
ElementOfPart(part) ==
    LET e1 == Remove(part, IdMatches(part))
        e2 == Remove(e1, ClassMatches(e1))
        e3 == Remove(e2, AttrMatches(e2))
        e4 == Remove(e3, PseudoStripMatches(e3))
        element == strip(e4)
    IN  IF /\ element # <<>>
           /\ element \notin {<<">">>, <<"+">>, <<"~">>, <<",">>}
           /\ element[1] \in Letters
        THEN 1
        ELSE 0

RECURSIVE SumElements(_, _)
SumElements(parts, k) ==
    IF k > Len(parts) THEN 0
    ELSE ElementOfPart(parts[k]) + SumElements(parts, k + 1)

\* _count_elements
_count_elements(selector) ==
    SumElements(Pieces(selector, CombinatorMatches(selector), 1, 1), 1)

RECURSIVE calculate(_)
RECURSIVE _count_pseudo_classes(_)
RECURSIVE SumNotArgs(_, _)
RECURSIVE MaxClasses(_, _)
RECURSIVE SumIsHasArgs(_, _)

\* The loop over not_matches: the class component of each argument.
SumNotArgs(args, k) ==
    IF k > Len(args) THEN 0
    ELSE calculate(args[k])[3] + SumNotArgs(args, k + 1)

\* max((self.calculate(s.strip())[2] for s in selectors), default=0), from
\* candidate k on.
MaxClasses(selectors, k) ==
    IF k > Len(selectors) THEN 0
    ELSE LET c == calculate(strip(selectors[k]))[3]
             r == MaxClasses(selectors, k + 1)
         IN  IF c >= r THEN c ELSE r

\* The loop over is_matches: the largest class component among the
\* comma-separated candidates of each argument list.
SumIsHasArgs(args, k) ==
    IF k > Len(args) THEN 0
    ELSE MaxClasses(split(args[k], ","), 1) + SumIsHasArgs(args, k + 1)

\* _count_pseudo_classes taking one unit back for every :not(), as if the
\* :not token itself had been counted among the pseudo-classes.
_count_pseudo_classes_uncharging_not(selector) ==
    Len(PseudoClassMatches(selector))
        + SumNotArgs(NotMatches(selector), 1) - Len(NotMatches(selector))
        + SumIsHasArgs(IsHasMatches(selector), 1)

\* _count_pseudo_classes
_count_pseudo_classes(selector) ==
    Len(PseudoClassMatches(selector))
        + SumNotArgs(NotMatches(selector), 1)
        + SumIsHasArgs(IsHasMatches(selector), 1)

\* calculate: (inline, ids, classes, elements)
calculate(selector) ==
    IF Contains(lower(selector), StyleMarker)
    THEN <<1, 0, 0, 0>>
    ELSE LET cleaned == _clean_selector(selector)
             ids == Len(IdMatches(cleaned))
             classes == Len(ClassMatches(cleaned))
                            + Len(AttrMatches(cleaned))
                            + _count_pseudo_classes(cleaned)
             elements == _count_elements(cleaned)
                            + Len(PseudoElementMatches(cleaned))
         IN  <<0, ids, classes, elements>>

\* The candidates s.strip() for s in args.split(','), of every argument list
\* in is_matches from k on.
RECURSIVE StrippedCandidates(_, _)
StrippedCandidates(args, k) ==
    IF k > Len(args) THEN <<>>
    ELSE [h \in 1..Len(split(args[k], ",")) |-> strip(split(args[k], ",")[h])]
             \o StrippedCandidates(args, k + 1)

\* The arguments of the self.calculate calls that calculate(selector) makes
\* through _count_pseudo_classes, in order; none after the early return.
CalculateCalls(selector) ==
    IF Contains(lower(selector), StyleMarker)
    THEN <<>>
    ELSE LET cleaned == _clean_selector(selector)
         IN  NotMatches(cleaned) \o StrippedCandidates(IsHasMatches(cleaned), 1)

\* How many levels of self.calculate calls lie below calculate(selector).
RECURSIVE CallDepth(_)
RECURSIVE DeepestCall(_, _)
DeepestCall(args, k) ==
    IF k > Len(args) THEN 0
    ELSE LET d == 1 + CallDepth(args[k])
             r == DeepestCall(args, k + 1)
         IN  IF d >= r THEN d ELSE r

CallDepth(selector) ==
    DeepestCall(CalculateCalls(selector), 1)

\* str(n) for an integer n.
RECURSIVE IntToStr(_)
IntToStr(n) ==
    IF n < 0 THEN <<"-">> \o IntToStr(0 - n)
    ELSE IF n < 10 THEN <<DigitSeq[n + 1]>>
    ELSE IntToStr(n \div 10) \o <<DigitSeq[(n % 10) + 1]>>

\* format_specificity: f"{spec[0]},{spec[1]},{spec[2]},{spec[3]}"
format_specificity(spec) ==
    IntToStr(spec[1]) \o <<",">> \o IntToStr(spec[2]) \o <<",">>
        \o IntToStr(spec[3]) \o <<",">> \o IntToStr(spec[4])

\* Python's tuple comparison a > b: decided by the first position where the
\* tuples differ, and by their lengths when one is a prefix of the other.
TupleGreater(a, b) ==
    LET n == IF Len(a) <= Len(b) THEN Len(a) ELSE Len(b)
        diff == {k \in 1..n : a[k] # b[k]}
    IN  IF diff = {} THEN Len(a) > Len(b)
        ELSE LET k == CHOOSE d \in diff : \A e \in diff : d <= e
             IN  a[k] > b[k]

\* A specificity as one decimal number, a digit per component.
DecimalWeight(t) ==
    t[1] * 1000 + t[2] * 100 + t[3] * 10 + t[4]

\* is_high_specificity deciding by a weighted sum of the components.
is_high_specificity_by_weight(spec, self_threshold) ==
    DecimalWeight(spec) > DecimalWeight(self_threshold)

\* is_high_specificity: spec > self.threshold
is_high_specificity(spec, self_threshold) ==
    TupleGreater(spec, self_threshold)

\* analyze_selector
analyze_selector(selector, self_threshold) ==
    LET spec == calculate(selector)
    IN  [selector |-> selector,
         specificity |-> format_specificity(spec),
         specificity_tuple |-> spec,
         is_high |-> is_high_specificity(spec, self_threshold),
         threshold |-> format_specificity(self_threshold)]

(***************************************************************************)
(* CSSFileAnalyzer                                                          *)
(***************************************************************************)

\* The first position >= i where the literal pat occurs, or 0.
RECURSIVE Find(_, _, _)
Find(s, i, pat) ==
    IF i + Len(pat) - 1 > Len(s) THEN 0
    ELSE IF MatchAt(s, i, pat) THEN i
    ELSE Find(s, i + 1, pat)

\* r'/\*.*?\*/' with re.DOTALL at i: the comment ends at the first "*/"
\* after its opening "/*".
CommentEnd(s, i) ==
    IF MatchAt(s, i, <<"/", "*">>) /\ Find(s, i + 2, <<"*", "/">>) # 0
    THEN Find(s, i + 2, <<"*", "/">>) + 2
    ELSE 0

CommentMatches(s) ==
    Scan([i \in 1..Len(s) |-> CommentEnd(s, i)], 1, Len(s))

\* The position of the first brace at or after i, or Len(s) + 1.
RECURSIVE BraceFrom(_, _)
BraceFrom(s, i) ==
    IF i > Len(s) \/ s[i] \in {"{", "}"} THEN i ELSE BraceFrom(s, i + 1)

\* r'([^{}]+)\{' at i: a non-empty run without braces that an opening brace
\* ends.
PreludeEnd(s, i) ==
    LET e == BraceFrom(s, i)
    IN  IF e > i /\ e <= Len(s) /\ s[e] = "{" THEN e + 1 ELSE 0

\* re.findall(r'([^{}]+)\{', css_content): the captured preludes.
PreludeMatches(s) ==
    LET ms == Scan([i \in 1..Len(s) |-> PreludeEnd(s, i)], 1, Len(s))
    IN  [k \in 1..Len(ms) |-> SubSeq(s, ms[k][1], ms[k][2] - 2)]

\* The inner loop of extract_selectors appending each part as split, without
\* part.strip().
RECURSIVE SelectorsOfParts_unstripped(_, _)
SelectorsOfParts_unstripped(parts, k) ==
    IF k > Len(parts) THEN <<>>
    ELSE LET selector == parts[k]
         IN  (IF selector # <<>> /\ ~startswith(selector, <<"@">>)
              THEN <<selector>>
              ELSE <<>>) \o SelectorsOfParts_unstripped(parts, k + 1)

\* The inner loop of extract_selectors: the stripped, non-empty parts that
\* do not start with "@", from part k on.
RECURSIVE SelectorsOfParts(_, _)
SelectorsOfParts(parts, k) ==
    IF k > Len(parts) THEN <<>>
    ELSE LET selector == strip(parts[k])
         IN  (IF selector # <<>> /\ ~startswith(selector, <<"@">>)
              THEN <<selector>>
              ELSE <<>>) \o SelectorsOfParts(parts, k + 1)

\* The outer loop of extract_selectors, from match k on: an at-rule prelude
\* is skipped, any other is split on commas.
RECURSIVE SelectorsOfMatches(_, _)
SelectorsOfMatches(matches, k) ==
    IF k > Len(matches) THEN <<>>
    ELSE (IF startswith(strip(matches[k]), <<"@">>)
          THEN <<>>
          ELSE SelectorsOfParts(split(matches[k], ","), 1))
             \o SelectorsOfMatches(matches, k + 1)

\* extract_selectors without the removal of comments.
extract_selectors_keeping_comments(css_content) ==
    SelectorsOfMatches(PreludeMatches(css_content), 1)

\* extract_selectors
extract_selectors(css_content) ==
    LET content == Remove(css_content, CommentMatches(css_content))
    IN  SelectorsOfMatches(PreludeMatches(content), 1)

\* The loop of analyze_file counting every selector as high.
RECURSIVE AnalyzeLoop_counting_all(_, _, _, _, _)
AnalyzeLoop_counting_all(selectors, k, results, high_specificity_count, self_threshold) ==
    IF k > Len(selectors) THEN <<results, high_specificity_count>>
    ELSE AnalyzeLoop_counting_all(
             selectors, k + 1,
             Append(results, analyze_selector(selectors[k], self_threshold)),
             high_specificity_count + 1, self_threshold)

\* The loop of analyze_file putting each record in front of the earlier ones.
RECURSIVE AnalyzeLoop_prepending(_, _, _, _, _)
AnalyzeLoop_prepending(selectors, k, results, high_specificity_count, self_threshold) ==
    IF k > Len(selectors) THEN <<results, high_specificity_count>>
    ELSE LET analysis == analyze_selector(selectors[k], self_threshold)
         IN  AnalyzeLoop_prepending(
                 selectors, k + 1, <<analysis>> \o results,
                 IF analysis.is_high
                 THEN high_specificity_count + 1
                 ELSE high_specificity_count,
                 self_threshold)

\* The loop of analyze_file from selector k on: <<results,
\* high_specificity_count>>.
RECURSIVE AnalyzeLoop(_, _, _, _, _)
AnalyzeLoop(selectors, k, results, high_specificity_count, self_threshold) ==
    IF k > Len(selectors) THEN <<results, high_specificity_count>>
    ELSE LET analysis == analyze_selector(selectors[k], self_threshold)
         IN  AnalyzeLoop(selectors, k + 1, Append(results, analysis),
                         IF analysis.is_high
                         THEN high_specificity_count + 1
                         ELSE high_specificity_count,
                         self_threshold)

\* analyze_file.  f is the file at file_path: its path, whether open/read
\* succeeds, its text, and the message of the exception when it does not.
analyze_file(f, self_threshold) ==
    IF ~f.readable
    THEN [error |-> Chars("Failed to read file: ") \o f.exception]
    ELSE LET selectors == extract_selectors(f.content)
             done == AnalyzeLoop(selectors, 1, <<>>, 0, self_threshold)
         IN  [file |-> f.path,
              total_selectors |-> Len(selectors),
              high_specificity_count |-> done[2],
              threshold |-> format_specificity(self_threshold),
              selectors |-> done[1]]

(***************************************************************************)
(* parse_threshold                                                          *)
(***************************************************************************)

\* The value of a string of decimal digits and underscores, the underscores
\* skipped.
RECURSIVE DigitsValue(_, _, _)
DigitsValue(s, i, acc) ==
    IF i > Len(s) THEN acc
    ELSE IF s[i] = "_" THEN DigitsValue(s, i + 1, acc)
    ELSE DigitsValue(s, i + 1,
             acc * 10 + (CHOOSE d \in 0..9 : DigitSeq[d + 1] = s[i]))

\* int(x) for a str x: surrounding whitespace is dropped, one sign may lead,
\* and the digits may be grouped by single underscores.  ok is FALSE where
\* int raises ValueError.  (Python's integers are unbounded; the strings
\* generated here hold at most a few digits.)
py_int(x) ==
    LET s == strip(x)
        signed == s # <<>> /\ s[1] \in {"+", "-"}
        body == IF signed THEN Tail(s) ELSE s
        valid == /\ body # <<>>
                 /\ \A i \in 1..Len(body) : body[i] \in Digits \cup {"_"}
                 /\ body[1] # "_"
                 /\ body[Len(body)] # "_"
                 /\ \A i \in 1..(Len(body) - 1) :
                        ~(body[i] = "_" /\ body[i + 1] = "_")
    IN  IF ~valid THEN [ok |-> FALSE, value |-> 0]
        ELSE [ok |-> TRUE,
              value |-> IF signed /\ s[1] = "-"
                        THEN 0 - DigitsValue(body, 1, 0)
                        ELSE DigitsValue(body, 1, 0)]

\* parse_threshold: the tuple of the int() of every stripped comma-separated
\* part when every part converts and there are four of them; otherwise the
\* ValueError is caught, a message is printed and sys.exit(1) ends the
\* process.
parse_threshold(threshold_str) ==
    LET pieces == split(threshold_str, ",")
        parts == [k \in 1..Len(pieces) |-> py_int(strip(pieces[k]))]
    IN  IF (\A k \in 1..Len(parts) : parts[k].ok) /\ Len(parts) = 4
        THEN [exit |-> FALSE, value |-> [k \in 1..Len(parts) |-> parts[k].value]]
        ELSE [exit |-> TRUE, value |-> 1]

(***************************************************************************)
(* Inputs.  Selectors and stylesheets are concatenations of a few tokens,   *)
(* together with the literal examples the documentation gives.              *)
(***************************************************************************)

\* The largest number of tokens in a generated selector.
MaxTokens ==
    3

\* The largest number of tokens in a generated stylesheet.
MaxCssTokens ==
    4

\* The largest ordinary component of a specificity handed to
\* is_high_specificity.
MaxComp ==
    3

\* A component large enough that a decimal weighted sum carries into the
\* next component.
BigComp ==
    12

\* All concatenations of at most n strings of tokens.
RECURSIVE TokenStrings(_, _)
TokenStrings(tokens, n) ==
    IF n = 0 THEN {<<>>}
    ELSE LET shorter == TokenStrings(tokens, n - 1)
         IN  shorter \cup {s \o tok : s \in shorter, tok \in tokens}

SelectorTokens ==
    {Chars(".a"), Chars("#b"), Chars("div"), Chars(" "), Chars(","),
     Chars(":hover"), Chars(":not("), Chars(":is("), Chars(":where("),
     Chars(")"), Chars("style="), Chars("\""), Chars("[x]"),
     Chars(":before")}

\* The pseudo-elements, with one and with two colons, alone and after a
\* type or class selector.
PseudoElementBases ==
    {<<>>, Chars("a"), Chars(".a")}

PseudoElementSelectors ==
    {base \o colons \o PseudoElementNames[k] :
        base \in PseudoElementBases,
        colons \in {Chars(":"), Chars("::")},
        k \in 1..Len(PseudoElementNames)}

\* The inline-style marker in several letter cases and places, and strings
\* that only come close to it.
InlineSelectors ==
    {pre \o mark \o post :
        pre \in {<<>>, Chars("\""), Chars(":not("), Chars("div[")},
        mark \in {Chars("style="), Chars("STYLE="), Chars("Style="),
                  Chars("sTyLe="), Chars("style ="), Chars("styl="),
                  Chars("STYLE"), Chars("tyle=")},
        post \in {<<>>, Chars("\""), Chars(".a)")}}

\* Functional pseudo-classes with one or two arguments.
FunctionalArgs ==
    {Chars(".a"), Chars("#b"), Chars("div"), Chars(":hover"), Chars(".a.c")}

FunctionalSelectors ==
    {fn \o a \o Chars(")") :
        fn \in {Chars(":not("), Chars(":is("), Chars(":has("), Chars(":where(")},
        a \in FunctionalArgs}
    \cup
    {fn \o a \o Chars(", ") \o b \o Chars(")") :
        fn \in {Chars(":not("), Chars(":is("), Chars(":has("), Chars(":where(")},
        a \in FunctionalArgs, b \in FunctionalArgs}

\* Functional pseudo-classes inside one another.
NestedSelectors ==
    {Chars(":not(:not(.a))"), Chars(":not(:is(.a, :not(#b)))"),
     Chars("div:is(:not(.a), :has(#b)) .c"), Chars(":has(:is(:not(:is(.a))))"),
     Chars(":not(':not(.a)')")}

\* The selectors the documentation works through.
ExampleSelectors ==
    {Chars("#nav .menu li a"), Chars("div.a.b.c"), Chars("#id .a .b .c"),
     Chars("div"), Chars(".a"), Chars(".foo"), Chars(":not(.foo)"),
     Chars(":is(.a, #b)"), Chars(":where(.a)"),
     Chars("style=\"color:red\""), Chars(":not(.a"), <<>>}

Selectors ==
    TokenStrings(SelectorTokens, MaxTokens) \cup PseudoElementSelectors
        \cup InlineSelectors \cup FunctionalSelectors \cup NestedSelectors
        \cup ExampleSelectors

\* The arguments given to the constructor; <<>> is "no threshold".
ThresholdArgs ==
    {<<>>, <<0, 1, 3, 3>>, <<0, 2, 0, 0>>, <<0, 0, 1, 0>>, <<1, 0, 0, 0>>}

SpecComponents ==
    (0..MaxComp) \cup {BigComp}

Specificities ==
    [1..4 -> SpecComponents]

CssTokens ==
    {Chars(".a"), Chars("div"), Chars(","), Chars(" "), Chars("{"),
     Chars("}"), Chars("@m"), Chars("/*"), Chars("*/")}

ExampleStylesheets ==
    {Chars("/* c */ .a, .b { color: red; } @media screen { .c { color: blue; } }"),
     Chars("#id .a .b .c, div { }"),
     Chars("#id .a .b .c { } div { }"),
     Chars("div.a, .a, div { x: y; }"),
     Chars(".a /* .b, { } */, div { }")}

Stylesheets ==
    TokenStrings(CssTokens, MaxCssTokens) \cup ExampleStylesheets

\* The largest number of comma-separated parts in a generated threshold
\* string.
MaxParts ==
    5

\* The largest number of calls one caller makes.
MaxCalls ==
    3

\* The parts a threshold string is made of: plain, padded, signed, grouped,
\* empty and non-numeric ones.
ThresholdParts ==
    {Chars("0"), Chars("-1"), Chars(" 12 "), <<>>, Chars("a"), Chars("+1_0")}

\* The parts joined by commas, n of them.
RECURSIVE JoinedParts(_)
JoinedParts(n) ==
    IF n = 1 THEN ThresholdParts
    ELSE {s \o <<",">> \o part : s \in JoinedParts(n - 1), part \in ThresholdParts}

\* The threshold strings of up to n parts.
ThresholdStrings(n) ==
    UNION {JoinedParts(k) : k \in 1..n}

\* The default of the --threshold option.
DefaultThresholdString ==
    Chars("0,1,3,3")

\* A file open() and read() succeed on, and one they raise on.
ReadableFile(content) ==
    [path |-> Chars("styles.css"), readable |-> TRUE, content |-> content,
     exception |-> <<>>]

UnreadableFile ==
    [path |-> Chars("styles.css"), readable |-> FALSE, content |-> <<>>,
     exception |-> Chars("[Errno 13] Permission denied: 'styles.css'")]

(***************************************************************************)
(* The program as a state machine.  A calculator is constructed once; its   *)
(* methods and the analyzer's are then called one at a time on the inputs   *)
(* at hand, each call running to its return.                                *)
(***************************************************************************)

VARIABLES
    threshold_arg,  \* the argument the calculator was constructed with
    threshold,      \* calculator.threshold
    selector,       \* the selector handed to calculate / analyze_selector
    spec,           \* the specificity handed to is_high_specificity
    file,           \* the file handed to the analyzer
    threshold_str,  \* the --threshold string handed to parse_threshold
    op,             \* the call that has just returned, or "idle"
    ret,            \* what that call returned
    calls_left,     \* how many more calls the caller is going to make
    calc_log        \* what calculate returned, call after call

vars ==
    <<threshold_arg, threshold, selector, spec, file, threshold_str, op, ret,
      calls_left, calc_log>>

inputs ==
    <<threshold_arg, threshold, selector, spec, file, threshold_str>>

\* The state after CSSSpecificityCalculator(t) and CSSFileAnalyzer(calculator)
\* are constructed, with the inputs of the calls to come.
Constructed(t, s, sp, f) ==
    /\ threshold_arg = t
    /\ threshold = __init__(t)
    /\ selector = s
    /\ spec = sp
    /\ file = f
    /\ op = "idle"
    /\ ret = <<>>
    /\ calc_log = <<>>

\* A few inputs of every kind.
Init ==
    \E t \in ThresholdArgs, s \in ExampleSelectors,
       sp \in {<<0, 0, 0, 0>>, <<0, 1, 3, 3>>, <<0, 2, 0, 0>>, <<0, 1, 3, 4>>},
       f \in {ReadableFile(c) : c \in ExampleStylesheets} \cup {UnreadableFile} :
        /\ Constructed(t, s, sp, f)
        /\ threshold_str = DefaultThresholdString
        /\ calls_left = 1

\* Every selector, under the default threshold.
InitCalc ==
    \E s \in Selectors :
        /\ Constructed(<<>>, s, <<0, 0, 0, 0>>, ReadableFile(<<>>))
        /\ threshold_str = DefaultThresholdString
        /\ calls_left = 1

\* Every specificity against every threshold.
InitHigh ==
    \E t \in ThresholdArgs, sp \in Specificities :
        /\ Constructed(t, <<>>, sp, ReadableFile(<<>>))
        /\ threshold_str = DefaultThresholdString
        /\ calls_left = 1

\* Every stylesheet, under the default threshold and a custom one, and the
\* file that cannot be read.
InitFile ==
    \E t \in {<<>>, <<0, 0, 1, 0>>},
       f \in {ReadableFile(c) : c \in Stylesheets} \cup {UnreadableFile} :
        /\ Constructed(t, <<>>, <<0, 0, 0, 0>>, f)
        /\ threshold_str = DefaultThresholdString
        /\ calls_left = 1

\* A caller that makes MaxCalls calls, one after the other, on one calculator
\* and one analyzer.
InitCalls ==
    \E t \in {<<>>, <<0, 2, 0, 0>>},
       s \in {Chars(".a"), Chars("#b:not(.a)"), Chars("div:is(.a, #b)")},
       sp \in {<<0, 1, 3, 3>>, <<0, 2, 0, 0>>},
       f \in {ReadableFile(Chars(".a, #b { }")), UnreadableFile} :
        /\ Constructed(t, s, sp, f)
        /\ threshold_str = DefaultThresholdString
        /\ calls_left = MaxCalls

\* Every threshold string, before a calculator built with the default.
InitParse ==
    \E ts \in ThresholdStrings(MaxParts) :
        /\ Constructed(<<>>, <<>>, <<0, 0, 0, 0>>, ReadableFile(<<>>))
        /\ threshold_str = ts
        /\ calls_left = 1

\* Calculate, had the counts been kept on the instance and never reset: each
\* call adds its counts to those of the call before.
Calculate_accumulating ==
    /\ op = "idle"
    /\ calls_left > 0
    /\ op' = "calculate"
    /\ ret' = (IF calc_log = <<>>
               THEN calculate(selector)
               ELSE [k \in 1..4 |->
                        calc_log[Len(calc_log)][k] + calculate(selector)[k]])
    /\ calls_left' = calls_left - 1
    /\ calc_log' = Append(calc_log, ret')
    /\ UNCHANGED inputs

Calculate ==
    /\ op = "idle"
    /\ calls_left > 0
    /\ op' = "calculate"
    /\ ret' = calculate(selector)
    /\ calls_left' = calls_left - 1
    /\ calc_log' = Append(calc_log, ret')
    /\ UNCHANGED inputs

IsHighSpecificity ==
    /\ op = "idle"
    /\ calls_left > 0
    /\ op' = "is_high_specificity"
    /\ ret' = is_high_specificity(spec, threshold)
    /\ calls_left' = calls_left - 1
    /\ UNCHANGED <<inputs, calc_log>>

AnalyzeSelector ==
    /\ op = "idle"
    /\ calls_left > 0
    /\ op' = "analyze_selector"
    /\ ret' = analyze_selector(selector, threshold)
    /\ calls_left' = calls_left - 1
    /\ UNCHANGED <<inputs, calc_log>>

\* extract_selectors on the text of a file that was read.
ExtractSelectors ==
    /\ op = "idle"
    /\ calls_left > 0
    /\ file.readable
    /\ op' = "extract_selectors"
    /\ ret' = extract_selectors(file.content)
    /\ calls_left' = calls_left - 1
    /\ UNCHANGED <<inputs, calc_log>>

AnalyzeFile ==
    /\ op = "idle"
    /\ calls_left > 0
    /\ op' = "analyze_file"
    /\ ret' = analyze_file(file, threshold)
    /\ calls_left' = calls_left - 1
    /\ UNCHANGED <<inputs, calc_log>>

\* parse_threshold either returns the tuple or ends the process with the
\* exit status 1.
ParseThreshold ==
    /\ op = "idle"
    /\ calls_left > 0
    /\ LET result == parse_threshold(threshold_str)
       IN  /\ op' = (IF result.exit THEN "exit" ELSE "parse_threshold")
           /\ ret' = result.value
    /\ calls_left' = calls_left - 1
    /\ UNCHANGED <<inputs, calc_log>>

\* The caller is done with the returned value; after sys.exit there is no
\* caller left.
Return ==
    /\ op \notin {"idle", "exit"}
    /\ op' = "idle"
    /\ ret' = <<>>
    /\ UNCHANGED <<inputs, calls_left, calc_log>>

Next ==
    \/ Calculate
    \/ IsHighSpecificity
    \/ AnalyzeSelector
    \/ ExtractSelectors
    \/ AnalyzeFile
    \/ ParseThreshold
    \/ Return

Spec ==
    Init /\ [][Next]_vars

SpecCalc ==
    InitCalc /\ [][Next]_vars

SpecHigh ==
    InitHigh /\ [][Next]_vars

SpecFile ==
    InitFile /\ [][Next]_vars

SpecParse ==
    InitParse /\ [][Next]_vars

SpecCalls ==
    InitCalls /\ [][Next]_vars

(***************************************************************************)
(* Properties of the calculator                                             *)
(***************************************************************************)

\* C1: calculate returns, for every selector string (the empty, malformed
\* and unbalanced ones included), a tuple of exactly four integers that are
\* all >= 0; no input makes it return anything else.
CalculateReturnsFourNaturals ==
    op = "calculate" =>
        /\ DOMAIN ret = 1..4
        /\ \A k \in 1..4 : ret[k] \in Nat

\* An unbalanced selector has been calculated.
UnbalancedSelectorCalculated ==
    /\ op = "calculate"
    /\ selector = Chars(":not(.a")
    /\ ret = <<0, 0, 1, 0>>

\* a is greater than b in the lexicographic order over (inline, id, class,
\* element).
LexGreater(a, b) ==
    \E k \in 1..4 : a[k] > b[k] /\ \A j \in 1..(k - 1) : a[j] = b[j]

\* C2: is_high_specificity(spec) is true exactly when spec is strictly
\* greater than the threshold in the lexicographic order: a tuple equal to
\* the threshold is not high, and an earlier component outweighs all later
\* ones whatever their size.
HighIffLexicographicallyGreater ==
    op = "is_high_specificity" => (ret <=> LexGreater(spec, threshold))

\* One more ID than the threshold makes a selector high although its class
\* and element components are smaller.
IdDominatesClassAndElement ==
    /\ op = "is_high_specificity"
    /\ spec = <<0, 2, 0, 0>>
    /\ threshold = <<0, 1, 3, 3>>
    /\ ret = TRUE

\* The six characters of "style=", each in either letter case, stand in s
\* from position i on.
StyleMarkerAt(s, i) ==
    /\ i + 5 <= Len(s)
    /\ \A k \in 1..6 : s[i + k - 1] \in {Chars("style=")[k], Chars("STYLE=")[k]}

HasStyleMarker(s) ==
    \E i \in 1..Len(s) : StyleMarkerAt(s, i)

\* C3: calculate returns exactly (1,0,0,0) when the selector contains
\* "style=" in any letter case, and a tuple whose inline component is 0
\* otherwise.
InlineIffStyleMarker ==
    op = "calculate" =>
        IF HasStyleMarker(selector)
        THEN ret = <<1, 0, 0, 0>>
        ELSE ret[1] = 0

\* A selector with the marker in capitals, inside a quoted string, has been
\* calculated as inline.
UpperCaseMarkerCalculated ==
    /\ op = "calculate"
    /\ selector = Chars("\"STYLE=\"")
    /\ ret = <<1, 0, 0, 0>>

\* s is prefix, a non-empty argument without ")", and a closing ")".
IsFunctionalOf(s, prefix) ==
    /\ MatchAt(s, 1, prefix)
    /\ Len(s) > Len(prefix) + 1
    /\ IndexOf(s, Len(prefix) + 1, ")") = Len(s)

ArgumentOf(s, prefix) ==
    SubSeq(s, Len(prefix) + 1, Len(s) - 1)

\* C5: a selector inside :where(...) adds nothing to the class component of
\* the enclosing selector (0 for ":where(.a)"), whereas ".a" on its own has
\* class component 1.
WhereArgumentAddsNothing ==
    /\ (op = "calculate" /\ IsFunctionalOf(selector, Chars(":where(")))
           => ret[3] = 0
    /\ (op = "calculate" /\ selector = Chars(".a")) => ret[3] = 1

\* The class components of the comma-separated candidates of an argument
\* list.
CandidateClasses(args) ==
    {calculate(strip(c))[3] : c \in Range(split(args, ","))}

Maximum(S) ==
    CHOOSE m \in S : \A x \in S : x <= m

\* C7: for a selector :is(A1, ..., An) or :has(A1, ..., An) the class
\* component is the maximum of the candidates' class components, not their
\* sum (1 for ":is(.a, #b)").
IsHasTakesMaximumClass ==
    /\ (op = "calculate" /\ IsFunctionalOf(selector, Chars(":is(")))
           => ret[3] = Maximum(CandidateClasses(ArgumentOf(selector, Chars(":is("))))
    /\ (op = "calculate" /\ IsFunctionalOf(selector, Chars(":has(")))
           => ret[3] = Maximum(CandidateClasses(ArgumentOf(selector, Chars(":has("))))

\* C8: for a selector :not(A), A without ")", the class component equals
\* the class component of A: the argument's count propagates and :not adds
\* nothing of its own.
NotPropagatesArgumentClass ==
    (op = "calculate" /\ IsFunctionalOf(selector, Chars(":not(")))
        => ret[3] = calculate(ArgumentOf(selector, Chars(":not(")))[3]

\* C9: each of the eight pseudo-elements, written with one or with two
\* colons, adds exactly 1 to the element component and 0 to the class
\* component of the selector it is appended to.
PseudoElementAddsOneElementOnly ==
    \A base \in PseudoElementBases, colons \in {Chars(":"), Chars("::")},
       k \in 1..Len(PseudoElementNames) :
        (op = "calculate" /\ selector = base \o colons \o PseudoElementNames[k])
            => /\ ret[4] = calculate(base)[4] + 1
               /\ ret[3] = calculate(base)[3]

(***************************************************************************)
(* Properties of the analyzer                                               *)
(***************************************************************************)

\* The stylesheet of the documentation's extraction example.
MediaExample ==
    Chars("/* c */ .a, .b { color: red; } @media screen { .c { color: blue; } }")

\* C4, as stated: the at-rule prelude is dropped and the rule nested in its
\* block is not recovered, so the example yields exactly [".a", ".b"].
NestedRuleNotRecovered ==
    (op = "extract_selectors" /\ file.content = MediaExample)
        => ret = <<Chars(".a"), Chars(".b")>>

\* C4, amended: extract_selectors drops every at-rule prelude (no returned
\* selector starts with "@") but does recover the selectors of the rules
\* nested in an at-rule's block: the example yields [".a", ".b", ".c"].
NestedRuleRecovered ==
    /\ op = "extract_selectors"
           => \A k \in 1..Len(ret) : ~startswith(ret[k], <<"@">>)
    /\ (op = "extract_selectors" /\ file.content = MediaExample)
           => ret = <<Chars(".a"), Chars(".b"), Chars(".c")>>

\* The example has been extracted.
MediaExampleExtracted ==
    /\ op = "extract_selectors"
    /\ file.content = MediaExample
    /\ Len(ret) = 3

\* The selector texts of a report's records, in order.
SelectorTexts(records) ==
    [k \in 1..Len(records) |-> records[k].selector]

\* A report on the selectors ["#id .a .b .c", "div"] under the threshold
\* (0,1,3,3) has been returned.
TwoSelectorReport ==
    /\ op = "analyze_file"
    /\ file.readable
    /\ threshold = <<0, 1, 3, 3>>
    /\ SelectorTexts(ret.selectors) = <<Chars("#id .a .b .c"), Chars("div")>>

\* C6, as stated: that report has total_selectors 2 and
\* high_specificity_count 1.
TwoSelectorReportOneHigh ==
    TwoSelectorReport =>
        /\ ret.total_selectors = 2
        /\ ret.high_specificity_count = 1

\* C6, amended: that report has total_selectors 2 and
\* high_specificity_count 0, since neither (0,1,3,0) nor (0,0,0,1) exceeds
\* (0,1,3,3).
TwoSelectorReportNoneHigh ==
    TwoSelectorReport =>
        /\ ret.total_selectors = 2
        /\ ret.high_specificity_count = 0
        /\ ret.selectors[1].specificity_tuple = <<0, 1, 3, 0>>
        /\ ret.selectors[2].specificity_tuple = <<0, 0, 0, 1>>

\* The two-selector report, from the stylesheet that lists both selectors
\* in one rule.
TwoSelectorReportReturned ==
    /\ TwoSelectorReport
    /\ file.content = Chars("#id .a .b .c, div { }")

\* C10: in every report of analyze_file on readable text the records are
\* the extracted selectors in extraction order, record i describing
\* selector i; total_selectors is the number of records; and
\* high_specificity_count is the number of records flagged is_high, hence
\* between 0 and total_selectors.
ReportMatchesExtraction ==
    (op = "analyze_file" /\ file.readable) =>
        LET extracted == extract_selectors(file.content)
            records == ret.selectors
        IN  /\ Len(records) = Len(extracted)
            /\ \A i \in 1..Len(records) :
                   /\ records[i].selector = extracted[i]
                   /\ records[i].specificity_tuple = calculate(extracted[i])
                   /\ records[i].is_high
                          <=> LexGreater(records[i].specificity_tuple, threshold)
            /\ ret.total_selectors = Len(records)
            /\ ret.high_specificity_count
                   = Cardinality({i \in 1..Len(records) : records[i].is_high})
            /\ 0 <= ret.high_specificity_count
            /\ ret.high_specificity_count <= ret.total_selectors

\* A report with three records of which exactly the first is high.
MixedReportReturned ==
    /\ op = "analyze_file"
    /\ file.readable
    /\ ret.total_selectors = 3
    /\ ret.high_specificity_count = 1
    /\ ret.selectors[1].is_high

(***************************************************************************)
(* Properties of parse_threshold                                            *)
(***************************************************************************)

\* s is a comma-separated list of exactly four integers, none negative.
FourNonNegativeIntegers(s) ==
    LET parts == split(s, ",")
    IN  /\ Len(parts) = 4
        /\ \A k \in 1..4 : /\ py_int(strip(parts[k])).ok
                           /\ py_int(strip(parts[k])).value >= 0

\* C11: parse_threshold accepts a string exactly when it is a
\* comma-separated list of exactly four non-negative integers, and then
\* returns them as the tuple; every other shape (a wrong count, a part that
\* is no integer, a negative integer) ends the process with exit status 1
\* and yields no threshold.
ParseAcceptsExactlyFourNonNegative ==
    op \in {"parse_threshold", "exit"} =>
        IF FourNonNegativeIntegers(threshold_str)
        THEN /\ op = "parse_threshold"
             /\ ret = [k \in 1..4 |->
                          py_int(strip(split(threshold_str, ",")[k])).value]
        ELSE /\ op = "exit"
             /\ ret = 1

\* ------------------------------------------------------------------------
\* Properties of the calculator across calls
\* ------------------------------------------------------------------------

RECURSIVE WithComments(_, _, _)
WithComments(s, i, filler) ==
    IF i > Len(s) THEN <<>>
    ELSE IF /\ i < Len(s)
            /\ s[i] = "/"
            /\ s[i + 1] = "*"
            /\ \E j \in (i + 2)..(Len(s) - 1) : s[j] = "*" /\ s[j + 1] = "/"
         THEN LET close == CHOOSE j \in (i + 2)..(Len(s) - 1) :
                               /\ s[j] = "*" /\ s[j + 1] = "/"
                               /\ \A h \in (i + 2)..(j - 1) :
                                      ~(s[h] = "*" /\ s[h + 1] = "/")
              IN  filler \o WithComments(s, close + 2, filler)
         ELSE <<s[i]>> \o WithComments(s, i + 1, filler)

\* The text outside the closed comments.
OutsideComments(s) ==
    WithComments(s, 1, <<>>)

\* The text with every closed comment emptied.
EmptiedComments(s) ==
    WithComments(s, 1, <<"/", "*", "*", "/">>)

\* C13: every string extract_selectors returns is non-empty, has no
\* whitespace at either end, holds no ",", "{" or "}" and does not start
\* with "@"; it is a piece of the text outside the closed comments, and the
\* returned list is the one returned when every closed comment is emptied.
ExtractedSelectorsCleanAndCommentFree ==
    op = "extract_selectors" =>
        /\ \A k \in 1..Len(ret) :
               /\ ret[k] # <<>>
               /\ ret[k][1] \notin Whitespace \cup {"@"}
               /\ ret[k][Len(ret[k])] \notin Whitespace
               /\ \A h \in 1..Len(ret[k]) : ret[k][h] \notin {",", "{", "}"}
               /\ Find(OutsideComments(file.content), 1, ret[k]) # 0
        /\ ret = extract_selectors(EmptiedComments(file.content))

\* A stylesheet whose closed comment holds a selector, a comma and braces,
\* with selectors returned from around it.
CommentedRuleExtracted ==
    /\ op = "extract_selectors"
    /\ file.content = Chars(".a /* .b, { } */, div { }")
    /\ ret = <<Chars(".a"), Chars("div")>>

\* ------------------------------------------------------------------------
\* Properties of the recursion of calculate
\* ------------------------------------------------------------------------

\* C14: every self.calculate call made for a :not, :is or :has argument of
\* calculate(selector) receives a string strictly shorter than the selector
\* and without ")", and makes no self.calculate call of its own: the calls
\* go one level below the top-level call at most, which then returns.
RecursionOneLevelDeep ==
    op = "calculate" =>
        /\ \A arg \in Range(CalculateCalls(selector)) :
               /\ Len(arg) < Len(selector)
               /\ ")" \notin Range(arg)
               /\ CalculateCalls(arg) = <<>>
        /\ CallDepth(selector) <= 1
        /\ DOMAIN ret = 1..4

\* A selector nesting :not inside :is inside :not has been calculated: its
\* three self.calculate calls are all made by the top-level call.
NestedSelectorCalculated ==
    /\ op = "calculate"
    /\ selector = Chars(":not(:is(.a, :not(#b)))")
    /\ CalculateCalls(selector)
           = <<Chars(":is(.a, :not(#b"), Chars(".a"), Chars(":not(#b")>>
    /\ CallDepth(selector) = 1
====
